---- MODULE Spec2Model ----
(***************************************************************************)
(* Model of the logrus -> REDIS hook of src/logrus_redis.go.               *)
(*                                                                         *)
(* One hook is constructed by NewHook from arguments drawn in Init.  The   *)
(* threads are the producers (callers of Fire), the background goroutine   *)
(* asyncProcessing ("worker") and the callers that signal on the exported  *)
(* Quit channel.  The store (the REDIS server) is the environment: it is   *)
(* reachable ("up") or unreachable ("down").  No timeout is set on a       *)
(* connection, so a call to the store may never return: Spec states no     *)
(* fairness, and a thread may stay at "ping" or "rpush" for ever.          *)
(*                                                                         *)
(* Strings that the code inspects character by character (the format       *)
(* argument) are sequences of one-character strings.                       *)
(***************************************************************************)
EXTENDS Integers, Sequences, FiniteSets, TLC

\* ---------------------------------------------------------------- bounds
MaxEvents == 3
MaxCap == 2
\* the Level values a hook is constructed with are 0..MaxLevel
MaxLevel == 7

\* ------------------------------------------------------- program constants
\* redis.Pool{MaxIdle: 3}
MaxIdle == 3

\* logrus.Level: PanicLevel is the zero value of the type
PanicLevel == 0
FatalLevel == 1
ErrorLevel == 2
WarnLevel == 3
InfoLevel == 4
DebugLevel == 5

Producers == {"p1", "p2"}
Worker == "worker"
Threads == Producers \cup {Worker}
Stoppers == {"s1", "s2"}

v0 == <<"v", "0">>
v1 == <<"v", "1">>
Formats == {v0, v1, <<"V", "1">>, <<"b", "o", "g", "u", "s">>}

VARIABLES
    args,        \* the arguments NewHook is called with
    ctorPc,      \* NewHook: "get", "ping", "done" (hook returned), "failed" (nil, err)
    ctorConn,    \* the connection NewHook holds
    hook,        \* the RedisHook fields Async, LogstashFormat (NoHook before NewHook returns one)
    EntryQueue,  \* hook.EntryQueue: the buffered content of the channel
    quitClosed,  \* hook.Quit has been closed
    stopPc,      \* callers signalling on hook.Quit: "idle", "sending", "done"
    pc,          \* position of each producer and of the worker
    entry,       \* the entry each thread is handling (0: none)
    js,          \* the marshalled message each thread is about to push
    conn,        \* the connection each thread holds: "none", "ok", "err" (errorConn)
    idle,        \* number of idle connections in the pool
    storeState,  \* the REDIS server: "up", "down"
    redisList,   \* the list under hook.RedisKey: <<[ev, js]>>, ev the event the element is for
    nextId,      \* number of events logged so far
    result,      \* the value Fire returned for each event: "none", "nil", "err"
    dropped,     \* the events Fire discarded
    sinceDeq,    \* the events dispatched since the worker last received one
    signaled,    \* a caller has signalled (or begun to signal) on hook.Quit
    panicked,    \* the process has panicked
    levels,      \* what hook.Levels() returned when the hook was added (<<>> before)
    failed,      \* the events whose push returned an error
    accepted,    \* the events the channel took, in the order it took them
    workersStarted  \* number of asyncProcessing goroutines started

vars == <<args, ctorPc, ctorConn, hook, EntryQueue, quitClosed, stopPc, pc, entry, js,
          conn, idle, storeState, redisList, nextId, result, dropped, sinceDeq,
          signaled, panicked, levels, failed, accepted, workersStarted>>

NoHook == [made |-> FALSE, Async |-> FALSE, LogstashFormat |-> <<>>, Level |-> PanicLevel]
Events == 1..MaxEvents

\* ------------------------------------------------------------ pure helpers
\* strings.ToLower, on the characters the format argument is drawn from
LowerChar(c) ==
    CASE c = "V" -> "v"
      [] OTHER -> c

ToLower(s) == [i \in DOMAIN s |-> LowerChar(s[i])]

\* NewHook lines 69-72: the format stored in the hook
NewHookFormat(format) ==
    IF ToLower(format) # v0 /\ ToLower(format) # v1 THEN v0 ELSE format

\* os.Hostname() succeeded or not is fixed for a run; "host" stands for either answer
reportHostname == "host"

createV0Message(e) ==
    [shape |-> "V0", timestamp |-> e, source_host |-> reportHostname, message |-> e,
     level |-> "", fields_level |-> "info"]

createV1Message(e) ==
    [shape |-> "V1", timestamp |-> e, host |-> reportHostname, message |-> e,
     fields_level |-> "info"]

\* processEntry lines 148-155: msg stays nil when the switch matches no case
NilMsg == [shape |-> "nil"]

Message(format, e) ==
    CASE format = v0 -> createV0Message(e)
      [] format = v1 -> createV1Message(e)
      [] OTHER -> NilMsg

\* json.Marshal: a nil interface marshals to the text null; the message structs hold
\* strings and a map of strings only, for which Marshal returns no error
Marshal(msg) == IF msg = NilMsg THEN [text |-> "null"] ELSE [text |-> "object", obj |-> msg]

NoJs == [text |-> "none"]

Range(q) == {q[i] : i \in DOMAIN q}

\* (mutant) the capacity test is off by one
ChanFullOffByOne(q, cap) == Len(q) > cap

\* a send on the channel cannot proceed into the buffer
ChanFull(q, cap) == Len(q) >= cap

Leased == Cardinality({t \in Threads : conn[t] # "none"}) + (IF ctorConn # "none" THEN 1 ELSE 0)

\* ------------------------------------------------------------------- pool
\* pool.Get(): idle connections are tested with PING (TestOnBorrow) and dropped when
\* the test fails; then Dial.  A failed Dial gives an errorConn.
PoolGetConn == IF storeState = "up" THEN "ok" ELSE "err"
PoolGetIdle == IF storeState = "up" THEN (IF idle > 0 THEN idle - 1 ELSE 0) ELSE 0

\* conn.Close() after Do returned ok (TRUE) or an error: a healthy connection goes back
\* to the idle list, up to MaxIdle
PoolPutIdle(c, ok) == IF c = "ok" /\ ok /\ idle < MaxIdle THEN idle + 1 ELSE idle

\* conn.Do(...) succeeds
DoOk(c) == c = "ok" /\ storeState = "up"

\* (mutant) the connection is closed on the successful path only
CloseAfterSuccessOnly(c, ok) == IF ok THEN "none" ELSE c

\* defer conn.Close() (lines 61, 163): what the caller holds once the function
\* returned, Do having returned ok (TRUE) or an error
Close(c, ok) == "none"

\* The state when NewHook is called with arguments drawn from A.
InitFrom(A) ==
    /\ args \in A
    /\ ctorPc = "get"
    /\ ctorConn = "none"
    /\ hook = NoHook
    /\ EntryQueue = <<>>
    /\ quitClosed = FALSE
    /\ stopPc = [s \in Stoppers |-> "idle"]
    /\ pc = [t \in Threads |-> IF t = Worker THEN "none" ELSE "idle"]
    /\ entry = [t \in Threads |-> 0]
    /\ js = [t \in Threads |-> NoJs]
    /\ conn = [t \in Threads |-> "none"]
    /\ idle = 0
    /\ storeState \in {"up", "down"}
    /\ redisList = <<>>
    /\ nextId = 0
    /\ result = [e \in Events |-> "none"]
    /\ dropped = {}
    /\ sinceDeq = {}
    /\ signaled = FALSE
    /\ panicked = FALSE
    /\ levels = <<>>
    /\ failed = {}
    /\ accepted = <<>>
    /\ workersStarted = 0

\* The level is DebugLevel, as in example-usage/main.go; it is read by Levels() only.
Init ==
    InitFrom([format : Formats, async : BOOLEAN, bufferSize : 0..MaxCap,
              level : {DebugLevel}])

\* ------------------------------------------------------------- environment
\* The server becomes reachable or unreachable.
StoreChange ==
    /\ ~panicked
    /\ storeState' \in {"up", "down"} \ {storeState}
    /\ UNCHANGED <<levels, failed, accepted, workersStarted>>
    /\ UNCHANGED <<args, ctorPc, ctorConn, hook, EntryQueue, quitClosed, stopPc, pc, entry,
                   js, conn, idle, redisList, nextId, result, dropped, sinceDeq, signaled,
                   panicked>>

\* IdleTimeout: an idle connection older than 240 s is discarded.
IdleTimeout ==
    /\ ~panicked
    /\ idle > 0
    /\ idle' = idle - 1
    /\ UNCHANGED <<levels, failed, accepted, workersStarted>>
    /\ UNCHANGED <<args, ctorPc, ctorConn, hook, EntryQueue, quitClosed, stopPc, pc, entry,
                   js, conn, storeState, redisList, nextId, result, dropped, sinceDeq,
                   signaled, panicked>>

\* ------------------------------------------------------------------ NewHook
\* lines 57-61: pool := newRedisConnectionPool; conn := pool.Get(); defer conn.Close()
NewHookGet ==
    /\ ~panicked
    /\ ctorPc = "get"
    /\ ctorConn' = PoolGetConn
    /\ idle' = PoolGetIdle
    /\ ctorPc' = "ping"
    /\ UNCHANGED <<levels, failed, accepted, workersStarted>>
    /\ UNCHANGED <<args, hook, EntryQueue, quitClosed, stopPc, pc, entry, js, conn,
                   storeState, redisList, nextId, result, dropped, sinceDeq, signaled,
                   panicked>>

\* (mutant) the failed PING returns after the queue and the worker were set up
NewHookFailLate ==
    /\ ctorPc' = "failed"
    /\ ctorConn' = "none"
    /\ idle' = PoolPutIdle(ctorConn, FALSE)
    /\ pc' = IF args.async THEN [pc EXCEPT ![Worker] = "select"] ELSE pc
    /\ workersStarted' = IF args.async THEN workersStarted + 1 ELSE workersStarted
    /\ UNCHANGED <<hook, EntryQueue>>

\* lines 64-67: the PING failed: return nil, err (the deferred Close runs)
NewHookFail ==
    /\ ctorPc' = "failed"
    /\ ctorConn' = Close(ctorConn, FALSE)
    /\ idle' = PoolPutIdle(ctorConn, FALSE)
    /\ UNCHANGED <<hook, EntryQueue, pc, workersStarted>>

\* (mutant) the worker goroutine is started in sync mode too
NewHookOkAlwaysWorker ==
    /\ ctorPc' = "done"
    /\ ctorConn' = "none"
    /\ idle' = PoolPutIdle(ctorConn, TRUE)
    /\ hook' = [made |-> TRUE, Async |-> args.async,
                LogstashFormat |-> NewHookFormat(args.format), Level |-> args.level]
    /\ EntryQueue' = <<>>
    /\ pc' = [pc EXCEPT ![Worker] = "select"]
    /\ workersStarted' = workersStarted + 1

\* lines 69-91: the hook is built; in async mode the channels are made and the
\* worker goroutine is started; return &redisHook, nil (the deferred Close runs)
NewHookOk ==
    /\ ctorPc' = "done"
    /\ ctorConn' = Close(ctorConn, TRUE)
    /\ idle' = PoolPutIdle(ctorConn, TRUE)
    /\ hook' = [made |-> TRUE, Async |-> args.async,
                LogstashFormat |-> NewHookFormat(args.format), Level |-> args.level]
    /\ EntryQueue' = <<>>
    /\ pc' = IF args.async THEN [pc EXCEPT ![Worker] = "select"] ELSE pc
    /\ workersStarted' = IF args.async THEN workersStarted + 1 ELSE workersStarted

\* lines 64-92: conn.Do("PING") and what follows it
NewHookPing ==
    /\ ~panicked
    /\ ctorPc = "ping"
    /\ IF DoOk(ctorConn) THEN NewHookOk ELSE NewHookFail
    /\ UNCHANGED <<levels, failed, accepted>>
    /\ UNCHANGED <<args, quitClosed, stopPc, entry, js, conn, storeState, redisList,
                   nextId, result, dropped, sinceDeq, signaled, panicked>>

\* ------------------------------------------------------------------ Levels
\* the cases of the switch of lines 113-131, in their order
SwitchOrder == <<DebugLevel, InfoLevel, WarnLevel, ErrorLevel, FatalLevel, PanicLevel>>

\* (mutant) the cases do not fall through
LevelsNoFallthrough(level) ==
    IF \E i \in DOMAIN SwitchOrder : SwitchOrder[i] = level
    THEN <<PanicLevel, level>>
    ELSE <<PanicLevel>>

\* lines 110-134: make([]logrus.Level, 1) holds one zero value, which is PanicLevel;
\* the case that matches and every case after it append their level
Levels(level) ==
    LET matches == {i \in DOMAIN SwitchOrder : SwitchOrder[i] = level}
    IN  IF matches = {}
        THEN <<PanicLevel>>
        ELSE <<PanicLevel>> \o SubSeq(SwitchOrder, CHOOSE i \in matches : TRUE,
                                      Len(SwitchOrder))

\* log.AddHook(hook) (example-usage/main.go line 11): logrus registers the hook for
\* the levels hook.Levels() returns
AddHook ==
    /\ ~panicked
    /\ ctorPc = "done"
    /\ levels = <<>>
    /\ levels' = Levels(hook.Level)
    /\ UNCHANGED <<failed, accepted, workersStarted>>
    /\ UNCHANGED <<args, ctorPc, ctorConn, hook, EntryQueue, quitClosed, stopPc, pc, entry,
                   js, conn, idle, storeState, redisList, nextId, result, dropped,
                   sinceDeq, signaled, panicked>>

\* --------------------------------------------------------------- producers
\* The logger calls hook.Fire(entry) for a new log event (the hook was added).
Log(p) ==
    /\ ~panicked
    /\ ctorPc = "done"
    /\ levels # <<>>
    /\ pc[p] = "idle"
    /\ nextId < MaxEvents
    /\ nextId' = nextId + 1
    /\ entry' = [entry EXCEPT ![p] = nextId + 1]
    /\ pc' = [pc EXCEPT ![p] = "Fire"]
    /\ UNCHANGED <<levels, failed, accepted, workersStarted>>
    /\ UNCHANGED <<args, ctorPc, ctorConn, hook, EntryQueue, quitClosed, stopPc, js, conn,
                   idle, storeState, redisList, result, dropped, sinceDeq, signaled,
                   panicked>>

\* line 98, case hook.EntryQueue <- entry: the send proceeds into the buffer
FireEnqueue(p) ==
    /\ ~ChanFull(EntryQueue, args.bufferSize)
    /\ EntryQueue' = Append(EntryQueue, entry[p])
    /\ pc' = [pc EXCEPT ![p] = "idle"]
    /\ entry' = [entry EXCEPT ![p] = 0]
    /\ sinceDeq' = sinceDeq \cup {entry[p]}
    /\ accepted' = Append(accepted, entry[p])
    /\ UNCHANGED dropped

\* line 98 on a channel without buffer: the send proceeds only by handing the entry
\* to the worker waiting in its select (line 139)
FireHandoff(p) ==
    /\ args.bufferSize = 0
    /\ pc[Worker] = "select"
    /\ ~quitClosed
    /\ \A s \in Stoppers : stopPc[s] # "sending"
    /\ pc' = [pc EXCEPT ![p] = "idle", ![Worker] = "processEntry"]
    /\ entry' = [entry EXCEPT ![p] = 0, ![Worker] = entry[p]]
    /\ sinceDeq' = {}
    /\ accepted' = Append(accepted, entry[p])
    /\ UNCHANGED <<EntryQueue, dropped>>

\* (mutant) a full queue evicts its oldest entry to take the new one
FireDiscardEvictOldest(p) ==
    /\ ChanFull(EntryQueue, args.bufferSize)
    /\ args.bufferSize > 0
    /\ EntryQueue' = Append(Tail(EntryQueue), entry[p])
    /\ dropped' = dropped \cup {Head(EntryQueue)}
    /\ pc' = [pc EXCEPT ![p] = "idle"]
    /\ entry' = [entry EXCEPT ![p] = 0]
    /\ sinceDeq' = sinceDeq \cup {entry[p]}
    /\ accepted' = Append(accepted, entry[p])

\* lines 99-100, default: the entry is discarded
FireDiscard(p) ==
    /\ ChanFull(EntryQueue, args.bufferSize)
    /\ dropped' = dropped \cup {entry[p]}
    /\ pc' = [pc EXCEPT ![p] = "idle"]
    /\ entry' = [entry EXCEPT ![p] = 0]
    /\ sinceDeq' = sinceDeq \cup {entry[p]}
    /\ UNCHANGED <<EntryQueue, accepted>>

\* (mutant) a plain send, without the default case
FireAsyncBlocking(p) ==
    /\ \/ FireEnqueue(p)
       \/ FireHandoff(p)
    /\ result' = [result EXCEPT ![entry[p]] = "nil"]

\* lines 96-103: the select, then return nil
FireAsync(p) ==
    /\ \/ FireEnqueue(p)
       \/ FireHandoff(p)
       \/ FireDiscard(p)
    /\ result' = [result EXCEPT ![entry[p]] = "nil"]

\* line 105: return hook.processEntry(entry)
FireSync(p) ==
    /\ pc' = [pc EXCEPT ![p] = "processEntry"]
    /\ UNCHANGED <<EntryQueue, entry, result, dropped, sinceDeq, accepted>>

\* lines 95-107
Fire(p) ==
    /\ ~panicked
    /\ pc[p] = "Fire"
    /\ IF hook.Async THEN FireAsync(p) ELSE FireSync(p)
    /\ UNCHANGED <<levels, failed, workersStarted>>
    /\ UNCHANGED <<args, ctorPc, ctorConn, hook, quitClosed, stopPc, js, conn, idle,
                   storeState, redisList, nextId, signaled, panicked>>

\* ------------------------------------------------------------ processEntry
\* lines 148-163: the message is built and marshalled, a connection is taken
ProcessEntryGet(t) ==
    /\ ~panicked
    /\ pc[t] = "processEntry"
    /\ js' = [js EXCEPT ![t] = Marshal(Message(hook.LogstashFormat, entry[t]))]
    /\ conn' = [conn EXCEPT ![t] = PoolGetConn]
    /\ idle' = PoolGetIdle
    /\ pc' = [pc EXCEPT ![t] = "rpush"]
    /\ UNCHANGED <<levels, failed, accepted, workersStarted>>
    /\ UNCHANGED <<args, ctorPc, ctorConn, hook, EntryQueue, quitClosed, stopPc, entry,
                   storeState, redisList, nextId, result, dropped, sinceDeq, signaled,
                   panicked>>

\* (mutant) the error of Do is not returned
ProcessEntryReturnNil(ok) == "nil"

\* the value processEntry returns once Do returned ok (TRUE) or an error
ProcessEntryReturn(ok) == IF ok THEN "nil" ELSE "err"

\* (mutant) the worker returns when a delivery fails
WorkerExitsOnError(ok) == IF ok THEN "select" ELSE "exited"

\* lines 137-140: the worker drops the value processEntry returned and loops
WorkerAfterPush(ok) == "select"

\* lines 165-169: conn.Do("RPUSH", key, js), the return, and the deferred Close.
\* The worker drops the value returned (line 140) and loops; Fire returns it (line 105).
ProcessEntryPush(t) ==
    /\ ~panicked
    /\ pc[t] = "rpush"
    /\ redisList' = IF DoOk(conn[t])
                    THEN Append(redisList, [ev |-> entry[t], js |-> js[t]])
                    ELSE redisList
    /\ idle' = PoolPutIdle(conn[t], DoOk(conn[t]))
    /\ conn' = [conn EXCEPT ![t] = Close(conn[t], DoOk(conn[t]))]
    /\ js' = [js EXCEPT ![t] = NoJs]
    /\ entry' = [entry EXCEPT ![t] = 0]
    /\ pc' = [pc EXCEPT ![t] = IF t = Worker THEN WorkerAfterPush(DoOk(conn[t])) ELSE "idle"]
    /\ result' = IF t = Worker
                 THEN result
                 ELSE [result EXCEPT ![entry[t]] = ProcessEntryReturn(DoOk(conn[t]))]
    /\ failed' = IF DoOk(conn[t]) THEN failed ELSE failed \cup {entry[t]}
    /\ UNCHANGED <<levels, accepted, workersStarted>>
    /\ UNCHANGED <<args, ctorPc, ctorConn, hook, EntryQueue, quitClosed, stopPc,
                   storeState, nextId, dropped, sinceDeq, signaled, panicked>>

\* ------------------------------------------------------------------ worker
\* (mutant) the worker takes the newest entry of the queue
WorkerRecvEntryLifo ==
    /\ ~panicked
    /\ pc[Worker] = "select"
    /\ EntryQueue # <<>>
    /\ entry' = [entry EXCEPT ![Worker] = EntryQueue[Len(EntryQueue)]]
    /\ EntryQueue' = SubSeq(EntryQueue, 1, Len(EntryQueue) - 1)
    /\ pc' = [pc EXCEPT ![Worker] = "processEntry"]
    /\ sinceDeq' = {}
    /\ UNCHANGED <<levels, failed, accepted, workersStarted>>
    /\ UNCHANGED <<args, ctorPc, ctorConn, hook, quitClosed, stopPc, js, conn, idle,
                   storeState, redisList, nextId, result, dropped, signaled, panicked>>

\* (mutant) the worker reads the oldest entry and leaves it in the queue
WorkerRecvEntryPeek ==
    /\ ~panicked
    /\ pc[Worker] = "select"
    /\ EntryQueue # <<>>
    /\ entry' = [entry EXCEPT ![Worker] = Head(EntryQueue)]
    /\ EntryQueue' = EntryQueue
    /\ pc' = [pc EXCEPT ![Worker] = "processEntry"]
    /\ sinceDeq' = {}
    /\ UNCHANGED <<levels, failed, accepted, workersStarted>>
    /\ UNCHANGED <<args, ctorPc, ctorConn, hook, quitClosed, stopPc, js, conn, idle,
                   storeState, redisList, nextId, result, dropped, signaled, panicked>>

\* line 139: case entry := <-hook.EntryQueue
WorkerRecvEntry ==
    /\ ~panicked
    /\ pc[Worker] = "select"
    /\ EntryQueue # <<>>
    /\ entry' = [entry EXCEPT ![Worker] = Head(EntryQueue)]
    /\ EntryQueue' = Tail(EntryQueue)
    /\ pc' = [pc EXCEPT ![Worker] = "processEntry"]
    /\ sinceDeq' = {}
    /\ UNCHANGED <<levels, failed, accepted, workersStarted>>
    /\ UNCHANGED <<args, ctorPc, ctorConn, hook, quitClosed, stopPc, js, conn, idle,
                   storeState, redisList, nextId, result, dropped, signaled, panicked>>

\* (mutant) the worker empties the queue when it returns
WorkerRecvQuitDrain ==
    /\ ~panicked
    /\ pc[Worker] = "select"
    /\ \/ /\ quitClosed
          /\ UNCHANGED stopPc
       \/ \E s \in Stoppers :
            /\ stopPc[s] = "sending"
            /\ stopPc' = [stopPc EXCEPT ![s] = "done"]
    /\ pc' = [pc EXCEPT ![Worker] = "exited"]
    /\ EntryQueue' = <<>>
    /\ dropped' = dropped \cup Range(EntryQueue)
    /\ UNCHANGED <<levels, failed, accepted, workersStarted>>
    /\ UNCHANGED <<args, ctorPc, ctorConn, hook, quitClosed, entry, js, conn,
                   idle, storeState, redisList, nextId, result, sinceDeq,
                   signaled, panicked>>

\* lines 141-142: case <-hook.Quit: return.  The receive proceeds when the channel is
\* closed or a sender waits on it (the sender then proceeds too).
WorkerRecvQuit ==
    /\ ~panicked
    /\ pc[Worker] = "select"
    /\ \/ /\ quitClosed
          /\ UNCHANGED stopPc
       \/ \E s \in Stoppers :
            /\ stopPc[s] = "sending"
            /\ stopPc' = [stopPc EXCEPT ![s] = "done"]
    /\ pc' = [pc EXCEPT ![Worker] = "exited"]
    /\ UNCHANGED <<levels, failed, accepted, workersStarted>>
    /\ UNCHANGED <<args, ctorPc, ctorConn, hook, EntryQueue, quitClosed, entry, js, conn,
                   idle, storeState, redisList, nextId, result, dropped, sinceDeq,
                   signaled, panicked>>

\* ------------------------------------------------ signalling on hook.Quit
\* hook.Quit is the channel without buffer of line 87; the package has no function
\* that signals on it, so a caller signals with one of the two operations a channel
\* has.  close(hook.Quit): panics on a closed channel, and makes the senders waiting
\* on the channel panic.
QuitClose(s) ==
    /\ ~panicked
    /\ hook.made /\ hook.Async
    /\ stopPc[s] = "idle"
    /\ signaled' = TRUE
    /\ IF quitClosed \/ \E o \in Stoppers : stopPc[o] = "sending"
       THEN /\ panicked' = TRUE
            /\ UNCHANGED <<quitClosed, stopPc>>
       ELSE /\ quitClosed' = TRUE
            /\ stopPc' = [stopPc EXCEPT ![s] = "done"]
            /\ UNCHANGED panicked
    /\ UNCHANGED <<levels, failed, accepted, workersStarted>>
    /\ UNCHANGED <<args, ctorPc, ctorConn, hook, EntryQueue, pc, entry, js, conn, idle,
                   storeState, redisList, nextId, result, dropped, sinceDeq>>

\* hook.Quit <- v: panics on a closed channel, else waits until the worker receives
QuitSend(s) ==
    /\ ~panicked
    /\ hook.made /\ hook.Async
    /\ stopPc[s] = "idle"
    /\ signaled' = TRUE
    /\ IF quitClosed
       THEN /\ panicked' = TRUE
            /\ UNCHANGED stopPc
       ELSE /\ stopPc' = [stopPc EXCEPT ![s] = "sending"]
            /\ UNCHANGED panicked
    /\ UNCHANGED <<levels, failed, accepted, workersStarted>>
    /\ UNCHANGED <<args, ctorPc, ctorConn, hook, EntryQueue, quitClosed, pc, entry, js,
                   conn, idle, storeState, redisList, nextId, result, dropped, sinceDeq>>

Next ==
    \/ StoreChange
    \/ IdleTimeout
    \/ NewHookGet
    \/ NewHookPing
    \/ AddHook
    \/ \E p \in Producers : Log(p)
    \/ \E p \in Producers : Fire(p)
    \/ \E t \in Threads : ProcessEntryGet(t)
    \/ \E t \in Threads : ProcessEntryPush(t)
    \/ WorkerRecvEntry
    \/ WorkerRecvQuit
    \/ \E s \in Stoppers : QuitClose(s)
    \/ \E s \in Stoppers : QuitSend(s)

Spec == Init /\ [][Next]_vars

\* A sync hook constructed with each Level value, added to the logger and used.
LevelsInit ==
    InitFrom([format : {v0}, async : {FALSE}, bufferSize : {0}, level : 0..MaxLevel])

LevelsNext ==
    \/ StoreChange
    \/ IdleTimeout
    \/ NewHookGet
    \/ NewHookPing
    \/ AddHook
    \/ \E p \in Producers : Log(p)
    \/ \E p \in Producers : Fire(p)
    \/ \E t \in Threads : ProcessEntryGet(t)
    \/ \E t \in Threads : ProcessEntryPush(t)

LevelsSpec == LevelsInit /\ [][LevelsNext]_vars

\* The hook in use with no signal ever given on hook.Quit, the worker goroutine being
\* scheduled whenever it can run and every call it makes to the store returning.
NoQuitNext ==
    \/ StoreChange
    \/ IdleTimeout
    \/ NewHookGet
    \/ NewHookPing
    \/ AddHook
    \/ \E p \in Producers : Log(p)
    \/ \E p \in Producers : Fire(p)
    \/ \E t \in Threads : ProcessEntryGet(t)
    \/ \E t \in Threads : ProcessEntryPush(t)
    \/ WorkerRecvEntry

FairSpec ==
    /\ Init
    /\ [][NoQuitNext]_vars
    /\ WF_vars(WorkerRecvEntry)
    /\ WF_vars(ProcessEntryGet(Worker))
    /\ WF_vars(ProcessEntryPush(Worker))

\* ================================================================== claims
PushedFor(e) == {i \in DOMAIN redisList : redisList[i].ev = e}

\* A producer's Fire call returns in this step.
AsyncFireReturns(p) == hook.Async /\ pc[p] = "Fire" /\ pc'[p] # "Fire"

\* C1: in async mode a Fire call never blocks its caller: in every state in which a
\* producer is inside Fire (queue full or not, worker busy, stuck in a delivery or
\* exited, store unreachable) the call can complete at once, and the step it takes
\* is its return.
AsyncFireNeverBlocks ==
    \A p \in Producers :
        (~panicked /\ hook.Async /\ pc[p] = "Fire") =>
            /\ ENABLED Fire(p)
            /\ ENABLED (Fire(p) /\ pc'[p] = "idle")
            /\ ~ ENABLED (Fire(p) /\ pc'[p] # "idle")

\* C1 witness: a Fire call has returned for an entry it discarded while the queue is
\* full and the worker is inside a delivery to a store that is unreachable.
AsyncFireNeverBlocksWitness ==
    /\ hook.Async
    /\ storeState = "down"
    /\ pc[Worker] = "rpush"
    /\ args.bufferSize > 0
    /\ Len(EntryQueue) = args.bufferSize
    /\ \E e \in dropped : result[e] = "nil"

\* No discarded event is queued, with the worker, or in the store.
DroppedNeverDelivered ==
    \A e \in dropped :
        /\ e \notin Range(EntryQueue)
        /\ \A t \in Threads : entry[t] # e
        /\ PushedFor(e) = {}

\* C2: in async mode Fire returns nil for every event; when the queue (of capacity
\* at least 1) is at capacity, the queue is left as it is, the event is discarded and
\* it is never delivered.
AsyncFireSucceeds ==
    [][ /\ \A p \in Producers :
             AsyncFireReturns(p) =>
                /\ result'[entry[p]] = "nil"
                /\ (args.bufferSize > 0 /\ Len(EntryQueue) = args.bufferSize) =>
                      /\ EntryQueue' = EntryQueue
                      /\ entry[p] \in dropped'
        /\ DroppedNeverDelivered' ]_vars

\* C2 witness: an event was discarded on a full queue and Fire returned nil for it,
\* while other events went on to be delivered.
AsyncFireSucceedsWitness ==
    /\ hook.Async
    /\ \E e \in dropped : result[e] = "nil"
    /\ Len(redisList) > 0

\* C3: the number of entries pending in the queue never exceeds the capacity given
\* to NewHook.
QueueWithinCapacity ==
    (hook.made /\ hook.Async) => Len(EntryQueue) <= args.bufferSize

\* C3 witness: the queue is full, of capacity at least 2, and a further Fire was
\* discarded.
QueueWithinCapacityWitness ==
    /\ hook.Async
    /\ args.bufferSize >= 2
    /\ Len(EntryQueue) = args.bufferSize
    /\ dropped # {}

\* C4: whenever capacity + 1 events were dispatched without the worker receiving an
\* event in between, one of them was discarded and Fire returned nil for it.
Backpressure ==
    (hook.Async /\ Cardinality(sinceDeq) >= args.bufferSize + 1) =>
        \E e \in sinceDeq \cap dropped : result[e] = "nil"

\* C4 witness: a burst of capacity + 1 events on a queue of capacity at least 1.
BackpressureWitness ==
    /\ hook.Async
    /\ args.bufferSize >= 1
    /\ Cardinality(sinceDeq) = args.bufferSize + 1
    /\ Cardinality(sinceDeq \cap dropped) = 1

\* C5: once shutdown has been signalled the worker processes no further event: after
\* the signal no entry leaves the queue for the worker, even if entries remain
\* queued.  (A delivery already in progress at the signal is not held against the
\* claim.)
NoProcessingAfterShutdown ==
    [][ signaled =>
          /\ ~(pc[Worker] = "select" /\ pc'[Worker] = "processEntry")
          /\ Len(EntryQueue') >= Len(EntryQueue) ]_vars

\* C6: signalling shutdown a second time does not panic (no close of a closed
\* channel, no send on a closed channel).
ShutdownIdempotent == ~panicked

\* C7: a caller signalling on hook.Quit never waits for the worker: a signal in
\* progress is one the worker, at its select, can take at once, and is never pending
\* while the worker is inside a delivery or has exited.
ShutdownNeverWaits ==
    \A s \in Stoppers : stopPc[s] = "sending" => pc[Worker] = "select"

\* The Fire call of producer p returns from processEntry in this step.
SyncFireReturns(p) == ~hook.Async /\ pc[p] = "rpush" /\ pc'[p] = "idle"

\* C8: in sync mode Fire formats and pushes on the calling thread and returns the
\* outcome of the push: an error when the store is unreachable (nothing is pushed),
\* nil only when exactly one element was pushed for the event; no queue and no
\* worker take part.
SyncFireReturnsPushOutcome ==
    [][ /\ \A p \in Producers :
             SyncFireReturns(p) =>
                /\ (storeState = "down" \/ conn[p] = "err") =>
                      /\ result'[entry[p]] = "err"
                      /\ redisList' = redisList
                /\ result'[entry[p]] = "nil" =>
                      redisList' = Append(redisList, [ev |-> entry[p], js |-> js[p]])
        /\ (hook'.made /\ ~hook'.Async) =>
              /\ pc'[Worker] = "none"
              /\ EntryQueue' = <<>>
              /\ \A e \in Events :
                    /\ result'[e] = "nil" => Cardinality({i \in DOMAIN redisList' : redisList'[i].ev = e}) = 1
                    /\ result'[e] = "err" => {i \in DOMAIN redisList' : redisList'[i].ev = e} = {} ]_vars

\* C8 witness: a sync Fire has returned an error with the store unreachable, and
\* another has returned nil with its element in the store.
SyncFireReturnsPushOutcomeWitness ==
    /\ hook.made /\ ~hook.Async
    /\ storeState = "down"
    /\ \E e \in Events : result[e] = "err" /\ PushedFor(e) = {}
    /\ \E e \in Events : result[e] = "nil" /\ Cardinality(PushedFor(e)) = 1

\* C9: a construction whose PING fails (store unreachable) returns the error and no
\* hook: no queue, no worker, and the connection taken for the probe is released.
ConstructionFailsClean ==
    [][ /\ (ctorPc = "ping" /\ ctorPc' # "ping" /\ (storeState = "down" \/ ctorConn = "err"))
              => ctorPc' = "failed"
        /\ ctorPc' = "failed" =>
              /\ ~hook'.made
              /\ EntryQueue' = <<>>
              /\ pc'[Worker] = "none"
              /\ \A p \in Producers : pc'[p] = "idle"
              /\ ctorConn' = "none"
              /\ Leased' = 0 ]_vars

\* C9 witness: an async construction has failed against an unreachable store.
ConstructionFailsCleanWitness ==
    /\ ctorPc = "failed"
    /\ args.async
    /\ args.bufferSize > 0
    /\ storeState = "down"

\* What a hook constructed with the given format argument pushes for event e.
Delivers(format, e) == Marshal(Message(NewHookFormat(format), e))

\* C10: every element a hook constructed with "V1" pushes is the one a hook
\* constructed with "v1" pushes for that event, and every element a hook constructed
\* with "bogus" pushes is the one a hook constructed with "v0" pushes.
FormatSelection ==
    \A i \in DOMAIN redisList :
        /\ args.format = <<"V", "1">> => redisList[i].js = Delivers(v1, redisList[i].ev)
        /\ args.format = <<"b", "o", "g", "u", "s">> =>
              redisList[i].js = Delivers(v0, redisList[i].ev)

\* The six levels of logrus the switch of Levels() knows.
KnownLevels == {DebugLevel, InfoLevel, WarnLevel, ErrorLevel, FatalLevel, PanicLevel}

\* The severity ordering debug < info < warn < error < fatal < panic.
Severity(l) ==
    CASE l = DebugLevel -> 1
      [] l = InfoLevel -> 2
      [] l = WarnLevel -> 3
      [] l = ErrorLevel -> 4
      [] l = FatalLevel -> 5
      [] l = PanicLevel -> 6

\* C11: for each of the six thresholds, the levels Levels() returns are, as a set,
\* exactly the levels at or above the threshold; for warn the sequence is the entry
\* at index 0 followed by warn, error, fatal, panic.
LevelsAtOrAboveThreshold ==
    (levels # <<>> /\ hook.Level \in KnownLevels) =>
        /\ Range(levels) = {l \in KnownLevels : Severity(l) >= Severity(hook.Level)}
        /\ hook.Level = WarnLevel =>
              Tail(levels) = <<WarnLevel, ErrorLevel, FatalLevel, PanicLevel>>

\* C11 witness: a hook constructed with warn has been added to the logger.
LevelsAtOrAboveThresholdWitness ==
    /\ levels # <<>>
    /\ hook.Level = WarnLevel
    /\ Len(levels) = 5

\* C18: the entry at index 0 of what Levels() returns is none of the six levels, and
\* for a threshold that is none of the six levels no level is enabled.
PlaceholderIsNoLevel ==
    levels # <<>> =>
        /\ levels[1] \notin KnownLevels
        /\ hook.Level \notin KnownLevels => Range(levels) \cap KnownLevels = {}

\* C12: after shutdown is signalled the worker terminates at its next wait point,
\* whatever the queue holds: the step the worker takes from its select once the
\* signal is given is its return.
WorkerStopsAtNextWaitPoint ==
    [][ (signaled /\ pc[Worker] = "select" /\ pc'[Worker] # "select")
            => pc'[Worker] = "exited" ]_vars

\* The worker's call of processEntry returns in this step.
WorkerPushReturns == hook.Async /\ pc[Worker] = "rpush" /\ pc'[Worker] # "rpush"

\* No failed event is queued, with a thread, or in the store.
FailedNeverRetried ==
    \A e \in failed :
        /\ e \notin Range(EntryQueue)
        /\ \A t \in Threads : entry[t] # e
        /\ PushedFor(e) = {}

\* C13: in async mode a failed delivery is terminal for that event only: the worker
\* does not retry it (the event is nowhere any more), does not exit (it returns only
\* on the quit signal) and is back at its select with the queue as it was.
FailedDeliveryIsTerminalForOneEvent ==
    [][ /\ (WorkerPushReturns /\ ~DoOk(conn[Worker])) =>
              /\ pc'[Worker] = "select"
              /\ entry[Worker] \in failed'
              /\ EntryQueue' = EntryQueue
              /\ redisList' = redisList
        /\ FailedNeverRetried'
        /\ pc'[Worker] = "exited" => signaled' ]_vars

\* C13 witness: the worker failed to deliver an event and has since delivered an
\* event accepted after it.
FailedDeliveryIsTerminalForOneEventWitness ==
    /\ hook.Async
    /\ \E i, j \in DOMAIN accepted :
          /\ i < j
          /\ accepted[i] \in failed
          /\ PushedFor(accepted[j]) # {}

\* C14: a connection is held exactly from the Get of an operation to its return:
\* by NewHook between its Get and the end of its PING, by processEntry between its
\* Get and the end of its RPUSH, on success and on failure; with no construction
\* and no delivery in progress no connection is leased.
ConnectionsReleased ==
    /\ ctorConn # "none" <=> ctorPc = "ping"
    /\ \A t \in Threads : conn[t] # "none" <=> pc[t] = "rpush"
    /\ (ctorPc # "ping" /\ \A t \in Threads : pc[t] # "rpush") => Leased = 0

\* C14 witness: pushes have succeeded and failed, nothing is in progress and no
\* connection is leased.
ConnectionsReleasedWitness ==
    /\ ctorPc = "done"
    /\ failed # {}
    /\ Len(redisList) > 0
    /\ \A t \in Threads : pc[t] \notin {"processEntry", "rpush"}
    /\ Leased = 0

\* The event the worker is delivering, if any, followed by the queue.
Pending ==
    (IF pc[Worker] \in {"processEntry", "rpush"} THEN <<entry[Worker]>> ELSE <<>>)
        \o EntryQueue

NotFailed(e) == e \notin failed

\* C15: the events accepted are, in the order of their acceptance, those the worker
\* is done with, then the one it is delivering, then the queue; and the elements in
\* the store are, in order, the events the worker is done with that did not fail.
FifoDelivery ==
    (hook.made /\ hook.Async) =>
        LET done == Len(accepted) - Len(Pending)
        IN  /\ done >= 0
            /\ SubSeq(accepted, done + 1, Len(accepted)) = Pending
            /\ [i \in DOMAIN redisList |-> redisList[i].ev]
                  = SelectSeq(SubSeq(accepted, 1, done), NotFailed)

\* C15 witness: two events were accepted in the order opposite to the order of their
\* Fire calls and were pushed in the order of acceptance.
FifoDeliveryWitness ==
    /\ hook.Async
    /\ Len(redisList) = 2
    /\ redisList[1].ev = 2
    /\ redisList[2].ev = 1

\* C16: a hook returned by NewHook has one worker in async mode, started when NewHook
\* returns, and none in sync mode; no second worker is ever started and a worker
\* that has exited stays exited.
OneWorker ==
    [][ /\ workersStarted' = (IF hook'.made /\ hook'.Async THEN 1 ELSE 0)
        /\ (pc'[Worker] # "none") <=> (workersStarted' = 1)
        /\ (ctorPc' = "done" /\ args.async) => pc'[Worker] # "none"
        /\ pc[Worker] = "exited" => pc'[Worker] = "exited"
        /\ pc[Worker] # "none" => pc'[Worker] # "none" ]_vars

\* C16 witness: the one worker of an async hook has exited with entries queued.
OneWorkerWitness ==
    /\ hook.Async
    /\ workersStarted = 1
    /\ pc[Worker] = "exited"
    /\ EntryQueue # <<>>

IsPrefix(q, r) == Len(q) <= Len(r) /\ SubSeq(r, 1, Len(q)) = q

\* C17: the worker's return on the quit signal removes nothing from the queue; once
\* the worker has exited no entry is dequeued or pushed any more, and an async Fire
\* is accepted while the queue has room and discarded when it is full.
NoDrainOnExit ==
    [][ /\ (pc[Worker] = "select" /\ pc'[Worker] = "exited") =>
              /\ EntryQueue' = EntryQueue
              /\ redisList' = redisList
              /\ dropped' = dropped
        /\ pc[Worker] = "exited" =>
              /\ pc'[Worker] = "exited"
              /\ entry'[Worker] = entry[Worker]
              /\ redisList' = redisList
              /\ IsPrefix(EntryQueue, EntryQueue')
              /\ \A p \in Producers :
                    AsyncFireReturns(p) =>
                       /\ result'[entry[p]] = "nil"
                       /\ IF Len(EntryQueue) < args.bufferSize
                          THEN EntryQueue' = Append(EntryQueue, entry[p])
                          ELSE EntryQueue' = EntryQueue /\ entry[p] \in dropped' ]_vars

\* C17 witness: the worker has exited without having received anything, the queue
\* has since filled up and a further Fire was discarded.
NoDrainOnExitWitness ==
    /\ pc[Worker] = "exited"
    /\ args.bufferSize >= 1
    /\ Len(EntryQueue) = args.bufferSize
    /\ accepted = EntryQueue
    /\ dropped # {}

\* The events whose Fire call has acted.
Dispatched == (1..nextId) \ {entry[p] : p \in {q \in Producers : pc[q] = "Fire"}}

\* The number of conditions among discarded, queued, in delivery, pushed and failed
\* that event e is in, an event queued twice or pushed twice counting twice.
Conditions(e) ==
    (IF e \in dropped THEN 1 ELSE 0)
    + Cardinality({i \in DOMAIN EntryQueue : EntryQueue[i] = e})
    + Cardinality({t \in Threads : entry[t] = e /\ pc[t] \in {"processEntry", "rpush"}})
    + Cardinality(PushedFor(e))
    + (IF e \in failed THEN 1 ELSE 0)

\* C19: every dispatched event is in exactly one of the conditions discarded,
\* queued, in delivery, pushed, failed; every element of the store is for a
\* dispatched event, and the store holds no more elements than events dispatched.
ExactlyOneCondition ==
    /\ \A e \in Dispatched : Conditions(e) = 1
    /\ \A i \in DOMAIN redisList : redisList[i].ev \in Dispatched
    /\ Len(redisList) <= Cardinality(Dispatched)

\* C19 witness: of three dispatched events one was discarded, one failed and one
\* was pushed.
ExactlyOneConditionWitness ==
    /\ hook.Async
    /\ dropped # {}
    /\ failed # {}
    /\ Len(redisList) > 0

\* C20: with no shutdown signal, every delivery completing and the worker scheduled
\* fairly, every event the channel accepted is eventually dequeued and its push
\* attempted, once: it ends pushed exactly once or failed, never both.
AcceptedEventuallyDelivered ==
    \A e \in Events :
        /\ (e \in Range(accepted)) ~> (e \in failed \/ PushedFor(e) # {})
        /\ [](Cardinality(PushedFor(e)) <= 1)
        /\ [](e \in failed => PushedFor(e) = {})

\* C20 witness: every event was accepted and the worker has attempted them all.
AcceptedEventuallyDeliveredWitness ==
    /\ hook.Async
    /\ Len(accepted) = MaxEvents
    /\ \A e \in Events : e \in failed \/ PushedFor(e) # {}
    /\ Len(redisList) > 0

====
